---- MODULE Spec2Model ----
(***************************************************************************)
(* Model of the travel-planner wizard page (TravelPlannerPage): the wizard *)
(* step, the form, the plan state, the polling timer and the HTTP requests *)
(* in flight.  React state is captured by closures: a handler started at   *)
(* one render keeps the pollingInterval value of that render, so every     *)
(* request in flight and every interval timer carries the value it         *)
(* captured ("capt").                                                      *)
(***************************************************************************)
EXTENDS Integers, FiniteSets, Sequences, TLC

VARIABLES currentStep, formData, planState, pollingInterval,
          mounted, timers, timersCreated,
          submitsInFlight, submitsIssued,
          pollsInFlight, fetchesIssued, last

vars == <<currentStep, formData, planState, pollingInterval,
          mounted, timers, timersCreated,
          submitsInFlight, submitsIssued,
          pollsInFlight, fetchesIssued, last>>

(* ----------------------------- bounds ---------------------------------- *)

\* POST /plan/start requests issued in one behaviour
MaxSubmits == 2
\* GET /plan/{id}/state requests issued in one behaviour
MaxFetches == 2

\* texts typed into a free-text field
TextInputs == {"", "x"}

(* ------------------------- program constants --------------------------- *)

\* steps.length: destination, dates, details, processing, results
StepsLength == 5
\* setCurrentStep(3) after a successful submission
ProcessingStep == 3
\* setCurrentStep(4) after a terminal poll response
ResultsStep == 4
\* the passenger select offers [1..8]
MaxPassengers == 8

\* the cabin-class select's items, in order
CabinClasses == <<"economy", "premiumeconomy", "business", "first">>

\* the values of PlanState.state
PlanStates == {"PREPARING", "IN_PROGRESS", "COMPLETE", "FAILED"}

\* a null React state / absent optional field is the empty tuple, a present
\* value v is <<v>>; a null timer handle is 0 (handles are positive)
Null == <<>>
NoTimer == 0

\* useState initial value of formData, and the object the reset handler sets
DefaultFormData_BadPassengers ==
    [origin |-> "", destination |-> "", departure_date |-> "",
     return_date |-> "", cabin_class |-> "economy", passengers |-> 0]

DefaultFormData ==
    [origin |-> "", destination |-> "", departure_date |-> "",
     return_date |-> "", cabin_class |-> "economy", passengers |-> 1]

\* the select items the user picks among: the first and the last offered
CabinInputs == {CabinClasses[1], CabinClasses[Len(CabinClasses)]}

PassengerInputs == {1, MaxPassengers}

(* --------------------------- the service -------------------------------- *)

\* a PlanState body of the service; error and final_output are optional
Body(job, state, error, final_output) ==
    [plan_run_id |-> job, state |-> state, error |-> error,
     final_output |-> final_output]

\* the initial PlanState the service answers POST /plan/start with: the run
\* it created for that request, identified by a plan_run_id of its own
StartBodies(job) == {Body(job, "PREPARING", Null, Null)}

\* the PlanState bodies the service answers GET /plan/{job}/state with; error
\* comes only with FAILED and final_output only with COMPLETE
PollBodies(job) ==
    {Body(job, "PREPARING", Null, Null),
     Body(job, "IN_PROGRESS", Null, Null),
     Body(job, "COMPLETE", Null, <<"final">>),
     Body(job, "FAILED", Null, Null),
     Body(job, "FAILED", <<"No flights found">>, Null)}

\* no HTTP status: the fetch rejected (network error) or its body did not
\* parse, so the handler's catch block ran
Threw == 0

\* HTTP statuses the service answers with
Statuses == {Threw, 200, 404, 500}

(* --------------------------- pure helpers ------------------------------- *)

\* response.ok
ResponseOk_Not404(status) == status # Threw /\ status # 404

ResponseOk(status) == status >= 200 /\ status <= 299

\* state.state === "COMPLETE" || state.state === "FAILED"
IsTerminal_CompleteOnly(state) == state = "COMPLETE"

IsTerminal(state) == state = "COMPLETE" \/ state = "FAILED"

\* nextStep: if (currentStep < steps.length - 1) setCurrentStep(currentStep + 1)
nextStep_NoClamp(step) == step + 1

nextStep(step) == IF step < StepsLength - 1 THEN step + 1 ELSE step

\* prevStep: if (currentStep > 0) setCurrentStep(currentStep - 1)
prevStep_ToStart(step) == IF step > 0 THEN 0 ELSE step

prevStep(step) == IF step > 0 THEN step - 1 ELSE step

\* the steps whose view renders a Continue button bound to nextStep
ContinueOffered_AlsoProcessing(step) == step \in {0, 1, 3}

ContinueOffered(step) == step = 0 \/ step = 1

\* the disabled attribute of the Continue button of a step
ContinueDisabled_OriginOnly(step, fd) ==
    IF step = 0 THEN fd.origin = ""
    ELSE fd.departure_date = "" \/ fd.return_date = ""

ContinueDisabled(step, fd) ==
    IF step = 0 THEN fd.origin = "" \/ fd.destination = ""
    ELSE fd.departure_date = "" \/ fd.return_date = ""

\* the steps whose view renders a Back button bound to prevStep
BackOffered(step) == step = 1 \/ step = 2

\* the step whose view renders the Start Planning button
SubmitOffered(step) == step = 2

\* the step whose view renders the Plan Another Trip button
ResetOffered_AlsoProcessing(step) == step = 3 \/ step = 4

ResetOffered(step) == step = 4

\* clearInterval(handle): a no-op for a handle that is not active
ClearInterval_Toggle(ts, handle) ==
    IF \E t \in ts : t.handle = handle
    THEN {t \in ts : t.handle # handle}
    ELSE ts \cup {[handle |-> handle, job |-> handle, capt |-> NoTimer]}

ClearInterval(ts, handle) == {t \in ts : t.handle # handle}

\* if (pollingInterval) clearInterval(pollingInterval), on a captured value
ClearIfSet(ts, capt) == IF capt # NoTimer THEN ClearInterval(ts, capt) ELSE ts

\* the cleanup of useEffect(..., [pollingInterval]): it runs with the old
\* value when pollingInterval changes
EffectCleanup_None(ts, old, new) == ts

EffectCleanup(ts, old, new) == IF old # new THEN ClearIfSet(ts, old) ELSE ts

\* a status fetch: GET /plan/{job}/state issued by a pollPlanState closure
Fetch(n, job, capt) == [seq |-> n, job |-> job, capt |-> capt]

\* startPolling's "Poll immediately": pollPlanState(planRunId)
ImmediateFetches_None(n, job, capt) == {}

ImmediateFetches(n, job, capt) == {Fetch(n + 1, job, capt)}

\* the setInterval callback: pollPlanState(planRunId)
TickFetches_None(n, t) == {}

TickFetches(n, t) == {Fetch(n + 1, t.job, t.capt)}

\* setPlanState(state) in pollPlanState: the parsed body replaces the stored
\* plan state, whatever that was
setPlanState_Merge(prev, state) ==
    IF prev = Null THEN <<state>>
    ELSE <<[state EXCEPT !.error =
                IF state.error = Null THEN prev[1].error ELSE state.error]>>

setPlanState(prev, state) == <<state>>

\* the record of the last handler that ran: its name, the HTTP status it
\* saw, whether it went through, and the body it stored in planState
Event(op, status, accepted, body) ==
    [op |-> op, status |-> status, accepted |-> accepted, body |-> body]

\* the record of a settled status fetch: an Event with the number of the
\* fetch that was answered
PollEvent(seq, status, accepted, body) ==
    [op |-> "pollResponse", status |-> status, accepted |-> accepted,
     body |-> body, seq |-> seq]

(* ------------------------------- Init ----------------------------------- *)

Init ==
    /\ currentStep = 0
    /\ formData = DefaultFormData
    /\ planState = Null
    /\ pollingInterval = NoTimer
    /\ mounted = TRUE
    /\ timers = {}
    /\ timersCreated = 0
    /\ submitsInFlight = {}
    /\ submitsIssued = 0
    /\ pollsInFlight = {}
    /\ fetchesIssued = 0
    /\ last = Event("init", Threw, FALSE, Null)

net == <<timers, timersCreated, submitsInFlight, submitsIssued,
         pollsInFlight, fetchesIssued>>

(* ---------------------------- form editing ------------------------------ *)

\* the onChange / onValueChange handlers: setFormData({...formData, field: v})
EditOrigin ==
    /\ mounted /\ currentStep = 0
    /\ \E v \in TextInputs : formData' = [formData EXCEPT !.origin = v]
    /\ last' = Event("edit", Threw, TRUE, Null)
    /\ UNCHANGED <<currentStep, planState, pollingInterval, mounted, net>>

EditDestination ==
    /\ mounted /\ currentStep = 0
    /\ \E v \in TextInputs : formData' = [formData EXCEPT !.destination = v]
    /\ last' = Event("edit", Threw, TRUE, Null)
    /\ UNCHANGED <<currentStep, planState, pollingInterval, mounted, net>>

EditDepartureDate ==
    /\ mounted /\ currentStep = 1
    /\ \E v \in TextInputs : formData' = [formData EXCEPT !.departure_date = v]
    /\ last' = Event("edit", Threw, TRUE, Null)
    /\ UNCHANGED <<currentStep, planState, pollingInterval, mounted, net>>

EditReturnDate ==
    /\ mounted /\ currentStep = 1
    /\ \E v \in TextInputs : formData' = [formData EXCEPT !.return_date = v]
    /\ last' = Event("edit", Threw, TRUE, Null)
    /\ UNCHANGED <<currentStep, planState, pollingInterval, mounted, net>>

EditCabinClass ==
    /\ mounted /\ currentStep = 2
    /\ \E v \in CabinInputs : formData' = [formData EXCEPT !.cabin_class = v]
    /\ last' = Event("edit", Threw, TRUE, Null)
    /\ UNCHANGED <<currentStep, planState, pollingInterval, mounted, net>>

EditPassengers ==
    /\ mounted /\ currentStep = 2
    /\ \E v \in PassengerInputs : formData' = [formData EXCEPT !.passengers = v]
    /\ last' = Event("edit", Threw, TRUE, Null)
    /\ UNCHANGED <<currentStep, planState, pollingInterval, mounted, net>>

(* ----------------------------- navigation ------------------------------- *)

\* a click on the Continue button: nothing happens when it is disabled
ClickContinue ==
    /\ mounted /\ ContinueOffered(currentStep)
    /\ IF ContinueDisabled(currentStep, formData)
       THEN /\ currentStep' = currentStep
            /\ last' = Event("continue", Threw, FALSE, Null)
       ELSE /\ currentStep' = nextStep(currentStep)
            /\ last' = Event("continue", Threw, TRUE, Null)
    /\ UNCHANGED <<formData, planState, pollingInterval, mounted, net>>

\* a click on the Back button
ClickBack ==
    /\ mounted /\ BackOffered(currentStep)
    /\ currentStep' = prevStep(currentStep)
    /\ last' = Event("back", Threw, TRUE, Null)
    /\ UNCHANGED <<formData, planState, pollingInterval, mounted, net>>

(* ----------------------------- submission ------------------------------- *)

\* startPolling(planRunId) on the timers: clear the captured handle, then
\* setInterval(() => pollPlanState(planRunId), period) under a new handle
StartPollingTimers_NoInterval(ts, handle, job, capt) == ClearIfSet(ts, capt)

StartPollingTimers(ts, handle, job, capt) ==
    ClearIfSet(ts, capt) \cup {[handle |-> handle, job |-> job, capt |-> capt]}

\* a click on Start Planning: startPlanning runs up to its await fetch(POST
\* /plan/start) with the body JSON.stringify({...formData})
ClickStartPlanning ==
    /\ mounted /\ SubmitOffered(currentStep)
    /\ submitsIssued < MaxSubmits
    /\ submitsIssued' = submitsIssued + 1
    /\ submitsInFlight' = submitsInFlight \cup
           {[id |-> submitsIssued + 1, capt |-> pollingInterval]}
    /\ last' = Event("submit", Threw, TRUE, <<formData>>)
    /\ UNCHANGED <<currentStep, formData, planState, pollingInterval, mounted,
                   timers, timersCreated, pollsInFlight, fetchesIssued>>

\* the rest of startPlanning, once the POST settles.  A non-2xx status throws
\* into the catch block, which only logs.  A 2xx body is stored, polling is
\* started with the closures of the render that was clicked, and the wizard
\* moves to the processing step.  State setters do nothing after unmount.
SubmitResponse ==
    \E s \in submitsInFlight, status \in Statuses :
        /\ submitsInFlight' = submitsInFlight \ {s}
        /\ IF ResponseOk(status)
           THEN \E body \in StartBodies(s.id) :
                /\ fetchesIssued < MaxFetches
                /\ LET h == timersCreated + 1
                       started == StartPollingTimers(timers, h, body.plan_run_id, s.capt)
                       fetches == ImmediateFetches(fetchesIssued, body.plan_run_id, s.capt)
                   IN /\ timersCreated' = h
                      /\ pollsInFlight' = pollsInFlight \cup fetches
                      /\ fetchesIssued' = fetchesIssued + Cardinality(fetches)
                      /\ IF mounted
                         THEN /\ planState' = <<body>>
                              /\ pollingInterval' = h
                              /\ timers' = EffectCleanup(started, pollingInterval, h)
                              /\ currentStep' = ProcessingStep
                         ELSE /\ timers' = started
                              /\ UNCHANGED <<planState, pollingInterval, currentStep>>
                /\ last' = Event("submitResponse", status, TRUE,
                                 IF mounted THEN <<body>> ELSE Null)
           ELSE /\ last' = Event("submitResponse", status, FALSE, Null)
                /\ UNCHANGED <<currentStep, planState, pollingInterval, timers,
                               timersCreated, pollsInFlight, fetchesIssued>>
        /\ UNCHANGED <<formData, mounted, submitsIssued>>

(* ------------------------------ polling --------------------------------- *)

\* one firing of an active interval timer: its callback calls pollPlanState,
\* which runs up to its await fetch(GET /plan/{id}/state)
TimerTick ==
    \E t \in timers :
        /\ fetchesIssued < MaxFetches
        /\ LET fetches == TickFetches(fetchesIssued, t)
           IN /\ pollsInFlight' = pollsInFlight \cup fetches
              /\ fetchesIssued' = fetchesIssued + Cardinality(fetches)
        /\ last' = Event("tick", Threw, TRUE, Null)
        /\ UNCHANGED <<currentStep, formData, planState, pollingInterval, mounted,
                       timers, timersCreated, submitsInFlight, submitsIssued>>

\* the rest of pollPlanState, once the GET settles.  A non-2xx status returns
\* and a rejection is caught and logged.  A 2xx body replaces planState; a
\* terminal one clears the handle this closure captured (if it captured one)
\* and moves the wizard to the results step.
PollResponse ==
    \E p \in pollsInFlight, status \in Statuses :
        /\ pollsInFlight' = pollsInFlight \ {p}
        /\ IF ResponseOk(status)
           THEN \E body \in PollBodies(p.job) :
                /\ last' = PollEvent(p.seq, status, TRUE,
                                     IF mounted THEN <<body>> ELSE Null)
                /\ planState' = IF mounted THEN setPlanState(planState, body)
                                ELSE planState
                /\ IF IsTerminal(body.state)
                   THEN /\ currentStep' = IF mounted THEN ResultsStep ELSE currentStep
                        /\ IF p.capt # NoTimer
                           THEN /\ pollingInterval' =
                                       IF mounted THEN NoTimer ELSE pollingInterval
                                /\ timers' =
                                       IF mounted
                                       THEN EffectCleanup(ClearInterval(timers, p.capt),
                                                          pollingInterval, NoTimer)
                                       ELSE ClearInterval(timers, p.capt)
                           ELSE UNCHANGED <<pollingInterval, timers>>
                   ELSE UNCHANGED <<currentStep, pollingInterval, timers>>
           ELSE /\ last' = PollEvent(p.seq, status, FALSE, Null)
                /\ UNCHANGED <<currentStep, planState, pollingInterval, timers>>
        /\ UNCHANGED <<formData, mounted, timersCreated, submitsInFlight,
                       submitsIssued, fetchesIssued>>

(* ------------------------- reset and teardown --------------------------- *)

\* a click on Plan Another Trip
ClickReset ==
    /\ mounted /\ ResetOffered(currentStep)
    /\ timers' = EffectCleanup(ClearIfSet(timers, pollingInterval),
                               pollingInterval, NoTimer)
    /\ pollingInterval' = NoTimer
    /\ currentStep' = 0
    /\ planState' = Null
    /\ formData' = DefaultFormData
    /\ last' = Event("reset", Threw, TRUE, Null)
    /\ UNCHANGED <<mounted, timersCreated, submitsInFlight, submitsIssued,
                   pollsInFlight, fetchesIssued>>

\* component unmount: the effect cleanup runs with the current
\* pollingInterval, and React discards the component's state (shown here as
\* the initial values; no handler reads or writes it afterwards)
Unmount ==
    /\ mounted
    /\ mounted' = FALSE
    /\ timers' = ClearIfSet(timers, pollingInterval)
    /\ currentStep' = 0
    /\ formData' = DefaultFormData
    /\ planState' = Null
    /\ pollingInterval' = NoTimer
    /\ last' = Event("unmount", Threw, TRUE, Null)
    /\ UNCHANGED <<timersCreated, submitsInFlight, submitsIssued,
                   pollsInFlight, fetchesIssued>>

(* --------------------------- specifications ----------------------------- *)

Next ==
    \/ EditOrigin
    \/ EditDestination
    \/ EditDepartureDate
    \/ EditReturnDate
    \/ EditCabinClass
    \/ EditPassengers
    \/ ClickContinue
    \/ ClickBack
    \/ ClickStartPlanning
    \/ SubmitResponse
    \/ TimerTick
    \/ PollResponse
    \/ ClickReset
    \/ Unmount

Spec == Init /\ [][Next]_vars

\* nextStep called directly while the last step is shown, and prevStep while
\* the first is shown: the calls no button makes
CallNextStepAtLast ==
    /\ mounted /\ currentStep = StepsLength - 1
    /\ currentStep' = nextStep(currentStep)
    /\ last' = Event("nextStep", Threw, currentStep' # currentStep, Null)
    /\ UNCHANGED <<formData, planState, pollingInterval, mounted, net>>

CallPrevStepAtFirst ==
    /\ mounted /\ currentStep = 0
    /\ currentStep' = prevStep(currentStep)
    /\ last' = Event("prevStep", Threw, currentStep' # currentStep, Null)
    /\ UNCHANGED <<formData, planState, pollingInterval, mounted, net>>

NextApi ==
    \/ EditOrigin
    \/ EditDestination
    \/ EditDepartureDate
    \/ EditReturnDate
    \/ EditCabinClass
    \/ EditPassengers
    \/ ClickContinue
    \/ ClickBack
    \/ ClickStartPlanning
    \/ SubmitResponse
    \/ TimerTick
    \/ PollResponse
    \/ ClickReset
    \/ Unmount
    \/ CallNextStepAtLast
    \/ CallPrevStepAtFirst

SpecApi == Init /\ [][NextApi]_vars

(* ------------------- polling without an attempt bound ------------------- *)

\* the form a user has submitted
FilledFormData ==
    [origin |-> "x", destination |-> "x", departure_date |-> "x",
     return_date |-> "x", cabin_class |-> "economy", passengers |-> 1]

\* the state right after POST /plan/start was answered 200 for the first
\* submission: plan state stored, timer 1 running, the immediate status fetch
\* in flight, the processing step shown
InitPolling ==
    /\ currentStep = ProcessingStep
    /\ formData = FilledFormData
    /\ planState \in {<<b>> : b \in StartBodies(1)}
    /\ pollingInterval = 1
    /\ mounted = TRUE
    /\ timers = StartPollingTimers({}, 1, 1, NoTimer)
    /\ timersCreated = 1
    /\ submitsInFlight = {}
    /\ submitsIssued = 1
    /\ pollsInFlight = ImmediateFetches(0, 1, NoTimer)
    /\ fetchesIssued = 1
    /\ last = Event("submitResponse", 200, TRUE, planState)

\* one firing of an active interval timer in a behaviour of any length: the
\* callback has no attempt counter, so a tick always fetches.  Request
\* numbers are reused once their request has been answered, which keeps at
\* most MaxFetches requests in flight; fetchesIssued stops counting there.
TimerTickUnbounded ==
    \E t \in timers : \E n \in 1..MaxFetches :
        /\ \A p \in pollsInFlight : p.seq # n
        /\ \A m \in 1..(n - 1) : \E p \in pollsInFlight : p.seq = m
        /\ pollsInFlight' = pollsInFlight \cup TickFetches(n - 1, t)
        /\ fetchesIssued' = IF fetchesIssued < MaxFetches
                            THEN fetchesIssued + 1 ELSE fetchesIssued
        /\ last' = Event("tick", Threw, TRUE, Null)
        /\ UNCHANGED <<currentStep, formData, planState, pollingInterval, mounted,
                       timers, timersCreated, submitsInFlight, submitsIssued>>

NextPolling ==
    \/ TimerTickUnbounded
    \/ PollResponse
    \/ ClickReset
    \/ Unmount

\* setInterval keeps firing an active timer, and every fetch settles
SpecPolling ==
    /\ InitPolling
    /\ [][NextPolling]_vars
    /\ WF_vars(TimerTickUnbounded)
    /\ WF_vars(PollResponse)

(* --------------------------- the results view --------------------------- *)

\* prices of a flight or a stay are drawn from 0..MaxPrice
MaxPrice == 2

\* the two versions of the page: the results view of part_000 tests for the
\* presence of the keys `value` and `summary` where page.tsx tests whether
\* their values are truthy, and words the failure fallback differently
Variants == {"page.tsx", "part_000"}

\* JavaScript values, tagged with their typeof (null and undefined apart);
\* an object is the sequence of its entries, in insertion order
Undefined == [type |-> "undefined"]

JsNull == [type |-> "null"]

Num(n) == [type |-> "number", n |-> n]

Bool(b) == [type |-> "boolean", b |-> b]

Str(s) == [type |-> "string", s |-> s]

Entry(k, v) == [k |-> k, v |-> v]

Obj(entries) == [type |-> "object", entries |-> entries]

\* the truthiness of a value: what `v &&`, `v ||`, `if (v)`, `!v` test
Truthy(v) ==
    CASE v.type = "undefined" -> FALSE
      [] v.type = "null" -> FALSE
      [] v.type = "boolean" -> v.b
      [] v.type = "number" -> v.n # 0
      [] v.type = "string" -> v.s # ""
      [] OTHER -> TRUE

\* typeof v === 'object' && v !== null && k in v
HasKey(v, k) ==
    v.type = "object" /\ \E i \in 1..Len(v.entries) : v.entries[i].k = k

\* v.k, for a v that is neither null nor undefined
Get(v, k) ==
    IF HasKey(v, k)
    THEN v.entries[CHOOSE i \in 1..Len(v.entries) : v.entries[i].k = k].v
    ELSE Undefined

\* JSON texts and the values JSON.parse gives for them
JsonTexts ==
    << [text |-> "null", value |-> JsNull],
       [text |-> "0", value |-> Num(0)],
       [text |-> "{}", value |-> Obj(<<>>)],
       [text |-> "{\"accommodation\":{}}",
        value |-> Obj(<<Entry("accommodation", Obj(<<>>))>>)],
       [text |-> "{\"departureFlight\":{\"price\":1}}",
        value |-> Obj(<<Entry("departureFlight", Obj(<<Entry("price", Num(1))>>))>>)],
       [text |-> "{\"departureFlight\":{\"price\":1},\"returnFlight\":{\"price\":2},\"accommodation\":{\"price\":0}}",
        value |-> Obj(<<Entry("departureFlight", Obj(<<Entry("price", Num(1))>>)),
                        Entry("returnFlight", Obj(<<Entry("price", Num(2))>>)),
                        Entry("accommodation", Obj(<<Entry("price", Num(0))>>))>>)] >>

\* texts that are not JSON: JSON.parse throws on them
RawTexts == {"", "Trip booked!"}

\* JSON.parse(s) inside try/catch: the parsed value, or the exception
JSONParse(s) ==
    IF \E i \in 1..Len(JsonTexts) : JsonTexts[i].text = s
    THEN [ok |-> TRUE,
          value |-> JsonTexts[CHOOSE i \in 1..Len(JsonTexts) : JsonTexts[i].text = s].value]
    ELSE [ok |-> FALSE, value |-> Undefined]

\* a flight or stay section as the service sends it: absent, without a price,
\* or with a price
SectionInputs ==
    {Undefined, Obj(<<>>)} \cup {Obj(<<Entry("price", Num(p))>>) : p \in 0..MaxPrice}

\* the entry of an optional key
OptEntry(k, v) == IF v = Undefined THEN <<>> ELSE <<Entry(k, v)>>

\* the entries of a TravelData object
TravelDataEntries ==
    {OptEntry("departureFlight", d) \o OptEntry("returnFlight", r)
        \o OptEntry("accommodation", a) : d, r, a \in SectionInputs}

\* what the service puts under final_output.value
ValueInputs ==
    {JsNull, Num(0), Bool(FALSE)}
    \cup {Str(t) : t \in RawTexts}
    \cup {Str(JsonTexts[i].text) : i \in 1..Len(JsonTexts)}
    \cup {Obj(<<>>),
          Obj(<<Entry("accommodation", Obj(<<Entry("price", Num(MaxPrice))>>))>>),
          Obj(<<Entry("departureFlight", Obj(<<Entry("price", Num(1))>>)),
                Entry("returnFlight", Obj(<<>>)),
                Entry("accommodation", Obj(<<Entry("price", Num(MaxPrice))>>))>>)}

\* what the service puts under final_output.summary
SummaryInputs == {Undefined, Str(""), Str("Booked.")}

\* the final_output values of a COMPLETE plan: a text, or an object with an
\* optional value, the TravelData sections and an optional summary
FinalOutputs ==
    {Str(t) : t \in RawTexts}
    \cup {Str(JsonTexts[i].text) : i \in 1..Len(JsonTexts)}
    \cup {Obj(OptEntry("value", v) \o e \o OptEntry("summary", sm)) :
             v \in {Undefined} \cup ValueInputs, e \in TravelDataEntries,
             sm \in SummaryInputs}

\* what the service puts under error
ErrorInputs == {Null, <<"">>, <<"No flights found">>}

\* the terminal PlanState bodies shown by the results view
ResultBodies ==
    {Body(1, "COMPLETE", Null, fo) : fo \in {Null} \cup {<<f>> : f \in FinalOutputs}}
    \cup {Body(1, "FAILED", e, fo) : e \in ErrorInputs,
                                     fo \in {Null, <<Str("Trip booked!")>>}}

\* an optional field of a body as a JavaScript value
FieldValue(opt) == IF opt = Null THEN Undefined ELSE opt[1]

\* planState as the object that response.json() gave
PlanStateObject(body) ==
    Obj(<<Entry("plan_run_id", Str(ToString(body.plan_run_id))),
          Entry("state", Str(body.state))>>
        \o (IF body.error = Null THEN <<>> ELSE <<Entry("error", Str(body.error[1]))>>)
        \o OptEntry("final_output", FieldValue(body.final_output)))

\* '  '.repeat(depth)
RECURSIVE Indent(_)
Indent(depth) == IF depth = 0 THEN "" ELSE "  " \o Indent(depth - 1)

\* jsonToMarkdown's formatValue, for the values above (no arrays among them)
RECURSIVE formatValue(_, _)
formatValue(value, depth) ==
    CASE value.type \in {"null", "undefined"} -> "null"
      [] value.type = "string" -> value.s
      [] value.type = "number" -> ToString(value.n)
      [] value.type = "boolean" -> (IF value.b THEN "true" ELSE "false")
      [] value.type = "object" ->
            IF value.entries = <<>> THEN "{}"
            ELSE LET line(i) ==
                         LET key == value.entries[i].k
                             val == value.entries[i].v
                         IN IF val.type = "object"
                            THEN Indent(depth) \o "**" \o key \o ":**\n"
                                    \o formatValue(val, depth + 1)
                            ELSE Indent(depth) \o "**" \o key \o ":** "
                                    \o formatValue(val, depth + 1)
                     joined[i \in 1..Len(value.entries)] ==
                         IF i = 1 THEN line(1)
                         ELSE joined[i - 1] \o "\n\n" \o line(i)
                 IN joined[Len(value.entries)]

\* jsonToMarkdown(data)
jsonToMarkdown(data) ==
    IF ~Truthy(data) THEN ""
    ELSE IF data.type = "string" THEN data.s
    ELSE formatValue(data, 0)

\* the test that selects the `value` branch of the extraction
ValueBranch(variant, fo) ==
    IF variant = "page.tsx" THEN Truthy(Get(fo, "value")) ELSE HasKey(fo, "value")

\* the test that selects the explicit summary
SummaryBranch(variant, fo) ==
    IF variant = "page.tsx" THEN Truthy(Get(fo, "summary")) ELSE HasKey(fo, "summary")

\* JSON.parse in a try whose catch leaves travelData null
ParseOrNull(s) == IF JSONParse(s).ok THEN JSONParse(s).value ELSE JsNull

\* the cards' extraction of travelData from a truthy final_output
CardsTravelData(variant, fo) ==
    IF fo.type = "string" THEN ParseOrNull(fo.s)
    ELSE IF ValueBranch(variant, fo)
    THEN IF Get(fo, "value").type = "string"
         THEN ParseOrNull(Get(fo, "value").s)
         ELSE Get(fo, "value")
    ELSE fo

\* (section?.price || 0)
PriceOrZero(section) ==
    IF Truthy(Get(section, "price")) THEN Get(section, "price").n ELSE 0

\* the total of the Total Trip Cost card and of the synthesized summary
TotalCost_NoAccommodation(travelData) ==
    PriceOrZero(Get(travelData, "departureFlight"))
    + PriceOrZero(Get(travelData, "returnFlight"))

TotalCost(travelData) ==
    PriceOrZero(Get(travelData, "departureFlight"))
    + PriceOrZero(Get(travelData, "returnFlight"))
    + PriceOrZero(Get(travelData, "accommodation"))

\* a value inside a template literal
Template(v) ==
    CASE v.type = "undefined" -> "undefined"
      [] v.type = "null" -> "null"
      [] v.type = "string" -> v.s
      [] v.type = "number" -> ToString(v.n)
      [] v.type = "boolean" -> (IF v.b THEN "true" ELSE "false")

\* price?.toLocaleString(), for a price below 1000 in a locale with Latin
\* digits
LocaleString(price) ==
    IF price.type \in {"undefined", "null"} THEN Undefined
    ELSE Str(ToString(price.n))

\* new Date(t).toLocaleDateString() for the sections above, which carry no
\* time stamp
LocaleDateString(t) == CASE t.type = "undefined" -> "Invalid Date"

\* the lines the synthesized summary has for a flight
FlightLines(title, flight) ==
    "**" \o title \o ":** " \o Template(Get(flight, "Airline")) \o "\n"
    \o "- Date: " \o LocaleDateString(Get(flight, "departTime")) \o "\n"
    \o "- Price: ₹" \o Template(LocaleString(Get(flight, "price"))) \o "\n\n"

\* the lines the synthesized summary has for the accommodation
AccommodationLines(stay) ==
    "**Accommodation:** " \o Template(Get(stay, "HotelName")) \o "\n"
    \o "- Location: " \o Template(Get(stay, "exact_location")) \o "\n"
    \o "- Duration: " \o LocaleDateString(Get(stay, "checkInTime")) \o " - "
    \o LocaleDateString(Get(stay, "checkOutTime")) \o "\n"
    \o "- Price: ₹" \o Template(LocaleString(Get(stay, "price"))) \o "\n\n"

\* "Generate summary markdown"
SynthesizedSummary(travelData) ==
    "## Travel Plan Overview\n\n"
    \o (IF Truthy(Get(travelData, "departureFlight"))
        THEN FlightLines("Departure Flight", Get(travelData, "departureFlight"))
        ELSE "")
    \o (IF Truthy(Get(travelData, "returnFlight"))
        THEN FlightLines("Return Flight", Get(travelData, "returnFlight"))
        ELSE "")
    \o (IF Truthy(Get(travelData, "accommodation"))
        THEN AccommodationLines(Get(travelData, "accommodation"))
        ELSE "")
    \o "**Total Trip Cost:** ₹" \o ToString(TotalCost(travelData))

\* what the summary panel shows: the text given to ReactMarkdown, how it was
\* resolved, the travelData it was synthesized from and the total in it
SummaryOf(kind, text, travelData, total) ==
    [kind |-> kind, text |-> text, travelData |-> travelData, total |-> total]

\* the summary resolution for a truthy final_output
SummaryResolution(variant, fo) ==
    LET generic == SummaryOf("generic", Str(jsonToMarkdown(fo)), JsNull, Null)
        synthesized(td) ==
            IF ~Truthy(td) THEN generic
            ELSE SummaryOf("synthesized", Str(SynthesizedSummary(td)), td,
                           <<TotalCost(td)>>)
    IN IF SummaryBranch(variant, fo)
       THEN SummaryOf("explicit", Get(fo, "summary"), JsNull, Null)
       ELSE IF fo.type = "string"
       THEN IF JSONParse(fo.s).ok THEN synthesized(JSONParse(fo.s).value)
            ELSE generic
       ELSE IF ValueBranch(variant, fo)
       THEN IF Get(fo, "value").type = "string"
            THEN IF JSONParse(Get(fo, "value").s).ok
                 THEN synthesized(JSONParse(Get(fo, "value").s).value)
                 ELSE SummaryOf("raw", Get(fo, "value"), JsNull, Null)
            ELSE synthesized(Get(fo, "value"))
       ELSE generic

\* the generic text of the FAILED block (the emoji that ends the text of
\* part_000 is written as its code point)
FallbackMessage(variant) ==
    IF variant = "page.tsx"
    THEN "An error occurred while planning your trip."
    ELSE "Something went wrong while we were cooking your trip U+1F614"

\* planState.error || fallback
FailureMessage_AlwaysFallback(variant, error) == FallbackMessage(variant)

FailureMessage(variant, error) ==
    IF Truthy(error) THEN error.s ELSE FallbackMessage(variant)

\* the sections of travelData that get a card
SectionNames == {"departureFlight", "returnFlight", "accommodation"}

\* renderStep, case 4: what the results view shows for a plan state
\*   resultBlock  the COMPLETE block with cards and summary is rendered
\*   travelData   the travelData the cards extracted (null: no cards)
\*   cards        the sections that have a card
\*   totalCard    the total on the Total Trip Cost card, when it is shown
\*   summary      the summary panel, when it is shown
\*   planDetails  the text of the Plan Details block, when it is shown
\*   failure      the message of the FAILED block, when it is shown
ResultsView(variant, ps) ==
    LET complete == ps # Null /\ ps[1].state = "COMPLETE"
        failed == ps # Null /\ ps[1].state = "FAILED"
        fo == IF ps # Null THEN FieldValue(ps[1].final_output) ELSE Undefined
        shown == complete /\ Truthy(fo)
        td == IF shown THEN CardsTravelData(variant, fo) ELSE JsNull
        cards == IF Truthy(td)
                 THEN {c \in SectionNames : Truthy(Get(td, c))} ELSE {}
    IN [variant |-> variant,
        resultBlock |-> shown,
        travelData |-> td,
        cards |-> cards,
        totalCard |-> IF cards # {} THEN <<TotalCost(td)>> ELSE Null,
        summary |-> IF shown THEN <<SummaryResolution(variant, fo)>> ELSE Null,
        planDetails |-> IF complete /\ ~Truthy(fo)
                        THEN <<jsonToMarkdown(PlanStateObject(ps[1]))>> ELSE Null,
        failure |-> IF failed
                    THEN <<FailureMessage(variant, IF ps[1].error = Null THEN Undefined
                                                   ELSE Str(ps[1].error[1]))>>
                    ELSE Null]

\* the record of a rendering of the results view
RenderEvent(view, ps) ==
    [op |-> "render", status |-> Threw, accepted |-> TRUE, body |-> ps,
     view |-> view]

\* the state right after the immediate status fetch of the first submission
\* was answered with a terminal body: the results step is shown, and the
\* timer still runs
InitResults ==
    /\ currentStep = ResultsStep
    /\ formData = FilledFormData
    /\ planState \in {<<b>> : b \in ResultBodies}
    /\ pollingInterval = 1
    /\ mounted = TRUE
    /\ timers = StartPollingTimers({}, 1, 1, NoTimer)
    /\ timersCreated = 1
    /\ submitsInFlight = {}
    /\ submitsIssued = 1
    /\ pollsInFlight = {}
    /\ fetchesIssued = 1
    /\ last = PollEvent(1, 200, TRUE, planState)

\* a rendering of step 4 by one of the two versions of the page
RenderResults ==
    /\ mounted /\ currentStep = ResultsStep
    /\ \E variant \in Variants :
           last' = RenderEvent(ResultsView(variant, planState), planState)
    /\ UNCHANGED <<currentStep, formData, planState, pollingInterval, mounted, net>>

NextResults == RenderResults

SpecResults == InitResults /\ [][NextResults]_vars

TypeOK ==
    /\ currentStep \in 0..StepsLength
    /\ mounted \in BOOLEAN
    /\ planState # Null => planState[1].state \in PlanStates
    /\ pollingInterval \in 0..MaxSubmits
    /\ fetchesIssued \in 0..MaxFetches
    /\ submitsIssued \in 0..MaxSubmits

(* ------------------------------ properties ------------------------------ *)

\* the states and statuses the properties speak of, spelled out
TerminalStates == {"COMPLETE", "FAILED"}

Is2xx(status) == status >= 200 /\ status <= 299

\* the last handler stored a poll response with a terminal state
TerminalPollApplied(ev) ==
    /\ ev.op = "pollResponse" /\ ev.accepted /\ ev.body # Null
    /\ ev.body[1].state \in TerminalStates

\* C1: after a successful poll response whose state is COMPLETE or FAILED has
\* been applied, the repeating poll timer of that job is cancelled (so no
\* further status fetch is issued for it).
C1_TimerCancelledAfterTerminal ==
    TerminalPollApplied(last) =>
        /\ \A t \in timers : t.job # last.body[1].plan_run_id
        /\ pollingInterval = NoTimer

\* C2: startPolling(jobId) issues exactly one status fetch for jobId at once,
\* in the step that creates the timer and so before any tick of it, and each
\* timer tick issues exactly one status fetch for the job of its timer.
C2_OneFetchPerStartAndTick ==
    [][ /\ (last'.op = "submitResponse" /\ last'.accepted) =>
              \E t \in timers' \ timers : \E f \in pollsInFlight' \ pollsInFlight :
                  /\ t.handle = timersCreated'
                  /\ f.job = t.job
                  /\ pollsInFlight' = pollsInFlight \cup {f}
                  /\ fetchesIssued' = fetchesIssued + 1
        /\ last'.op = "tick" =>
              \E t \in timers : \E f \in pollsInFlight' \ pollsInFlight :
                  /\ f.job = t.job
                  /\ pollsInFlight' = pollsInFlight \cup {f}
                  /\ fetchesIssued' = fetchesIssued + 1
                  /\ timers' = timers
      ]_vars

\* a tick has fetched after the immediate fetch of startPolling
C2_Witness == last.op = "tick" /\ fetchesIssued = 2 /\ timersCreated = 1

\* C3: whenever a successful poll response with state COMPLETE or FAILED is
\* applied, currentStep is 4 right afterwards, whatever it was before, and
\* planState equals that response.
C3_TerminalForcesResults ==
    TerminalPollApplied(last) =>
        /\ currentStep = 4
        /\ planState = last.body

\* a terminal response that arrived after a reset (the handle is null again)
\* has moved the wizard to the results step
C3_Witness ==
    /\ TerminalPollApplied(last)
    /\ pollingInterval = NoTimer
    /\ currentStep = 4

\* C4: currentStep becomes 4 only by applying a poll response with state
\* COMPLETE or FAILED: no next, back, submit or reset does it, and the next
\* action is taken only at steps 0 and 1.
C4_ResultsOnlyByTerminalPoll ==
    [][ /\ (currentStep' = 4 /\ currentStep # 4) => TerminalPollApplied(last')
        /\ last'.op = "continue" => currentStep \in {0, 1}
      ]_vars

C4_Witness == currentStep = 4 /\ TerminalPollApplied(last)

\* C5: advance is gated per step: at step 0 it is refused (step unchanged)
\* when origin or destination is empty and otherwise sets step 1; at step 1
\* it is refused when departure_date or return_date is empty and otherwise
\* sets step 2; an accepted advance adds exactly 1 and leaves formData alone.
C5_AdvanceGated ==
    [][ last'.op = "continue" =>
            /\ currentStep = 0 =>
                   currentStep' = IF formData.origin = "" \/ formData.destination = ""
                                  THEN 0 ELSE 1
            /\ currentStep = 1 =>
                   currentStep' = IF formData.departure_date = "" \/ formData.return_date = ""
                                  THEN 1 ELSE 2
            /\ last'.accepted <=> (currentStep' = currentStep + 1)
            /\ currentStep' \in {currentStep, currentStep + 1}
            /\ formData' = formData
      ]_vars

\* the second gate has just been passed
C5_Witness == last.op = "continue" /\ last.accepted /\ currentStep = 2

\* C6: reset, from any state in which it can be invoked, yields step 0, the
\* default formData, a null planState and no active poll timer.
C6_ResetYieldsDefaults ==
    last.op = "reset" =>
        /\ currentStep = 0
        /\ formData = [origin |-> "", destination |-> "", departure_date |-> "",
                       return_date |-> "", cabin_class |-> "economy", passengers |-> 1]
        /\ planState = Null
        /\ pollingInterval = NoTimer
        /\ timers = {}

\* a reset made while a status fetch was still in flight
C6_Witness == last.op = "reset" /\ pollsInFlight # {} /\ timersCreated > 0

\* C7: currentStep is always one of 0..4; nextStep called at step 4 and
\* prevStep called at step 0 leave it unchanged.
C7_StepInRangeAndClamped ==
    /\ [](currentStep \in {0, 1, 2, 3, 4})
    /\ [][ /\ (last'.op = "nextStep" /\ currentStep = 4) => currentStep' = 4
           /\ (last'.op = "prevStep" /\ currentStep = 0) => currentStep' = 0
         ]_vars

\* nextStep has been called at the last step and changed nothing
C7_Witness == last.op = "nextStep" /\ ~last.accepted /\ currentStep = 4

\* C8: retreat decrements currentStep by exactly 1 when currentStep > 0, is
\* never blocked by empty form fields, and leaves formData, planState and the
\* poll timer unchanged.
C8_RetreatFrame ==
    /\ []((mounted /\ currentStep \in {1, 2}) => ENABLED ClickBack)
    /\ [][ last'.op = "back" =>
               /\ currentStep > 0
               /\ currentStep' = currentStep - 1
               /\ UNCHANGED <<formData, planState, pollingInterval, timers>>
         ]_vars

\* a retreat from the dates step with both dates empty
C8_Witness ==
    /\ last.op = "back" /\ currentStep = 0
    /\ formData.departure_date = "" /\ formData.return_date = ""

\* C9: submit is offered only at step 2; whenever its POST returns 2xx,
\* planState is set to the response body, polling is started for the body's
\* plan_run_id and currentStep becomes 3, whatever it was when the response
\* arrived.
C9_SubmitSuccess ==
    /\ last.op = "submit" => currentStep = 2
    /\ (last.op = "submitResponse" /\ Is2xx(last.status) /\ mounted) =>
          /\ last.body # Null
          /\ planState = last.body
          /\ currentStep = 3
          /\ \E t \in timers :
                /\ t.handle = pollingInterval
                /\ t.handle = timersCreated
                /\ t.job = planState[1].plan_run_id
          /\ \E f \in pollsInFlight :
                /\ f.seq = fetchesIssued
                /\ f.job = planState[1].plan_run_id

\* a 2xx response that arrived after the user had gone back and emptied the
\* origin field has still moved the wizard to the processing step
C9_Witness ==
    /\ last.op = "submitResponse" /\ last.accepted
    /\ currentStep = 3 /\ formData.origin = ""

\* C10: when POST /plan/start returns a non-2xx status or the request throws,
\* currentStep, planState and formData are unchanged, no poll timer is
\* started and no status fetch is issued.
C10_SubmitFailureNoTransition ==
    [][ (last'.op = "submitResponse" /\ ~Is2xx(last'.status)) =>
            UNCHANGED <<currentStep, planState, formData, pollingInterval,
                        timers, timersCreated, pollsInFlight, fetchesIssued>>
      ]_vars

\* a submission has been answered with a server error
C10_Witness == last.op = "submitResponse" /\ last.status = 500 /\ ~last.accepted

\* C11: a poll fetch that ends in HTTP 404, in any other non-2xx status or in
\* a network/parse exception leaves planState and currentStep unchanged and
\* leaves the repeating timer active, so that the next tick fetches again.
C11_PollFailureKeepsPolling ==
    /\ [][ (last'.op = "pollResponse" /\ ~Is2xx(last'.status)) =>
               UNCHANGED <<planState, currentStep, formData, pollingInterval,
                           timers, timersCreated>>
         ]_vars
    /\ []((/\ last.op = "pollResponse" /\ ~Is2xx(last.status)
           /\ timers # {} /\ fetchesIssued < MaxFetches) => ENABLED TimerTick)

\* the immediate fetch was answered 404 while the job's timer runs
C11_Witness ==
    /\ last.op = "pollResponse" /\ last.status = 404
    /\ currentStep = 3 /\ planState # Null /\ planState[1].state = "PREPARING"
    /\ \E t \in timers : t.handle = pollingInterval
    /\ fetchesIssued = 1

\* C12: after a successful poll response is applied, planState equals the
\* parsed response body exactly, with no field of the previous planState
\* surviving, and no poll response changes formData.
C12_PollReplacesPlanState ==
    [][ last'.op = "pollResponse" =>
            /\ formData' = formData
            /\ (Is2xx(last'.status) /\ mounted') =>
                  /\ last'.body # Null
                  /\ planState' = last'.body
      ]_vars

\* a body without error and final_output has replaced the terminal body that
\* had brought the wizard to the results step
C12_Witness ==
    /\ last.op = "pollResponse" /\ last.accepted
    /\ currentStep = 4 /\ planState # Null
    /\ planState[1].state = "IN_PROGRESS"
    /\ planState[1].error = Null /\ planState[1].final_output = Null

\* C13: after component teardown no repeating poll timer is active and no
\* further status fetch is issued, whenever the teardown happens (before
\* submission, with the submission POST in flight, while polling, after a
\* terminal state).
C13_NoPollingAfterTeardown ==
    /\ [](~mounted => timers = {})
    /\ [][~mounted => pollsInFlight' \subseteq pollsInFlight]_vars

TerminalAnswer == PollResponse /\ TerminalPollApplied(last')

\* C15: polling has no attempt limit: after a successful submission, with
\* timer ticks and response delivery weakly fair, if the service eventually
\* answers a status fetch with COMPLETE or FAILED then currentStep eventually
\* becomes 4, however many earlier fetches failed or were not terminal (for a
\* component that stays mounted).
C15_PollingReachesResults ==
    ([]mounted /\ SF_vars(TerminalAnswer)) => <>(currentStep = 4)

\* the results step was reached after MaxFetches or more fetches
C15_Witness ==
    /\ currentStep = 4 /\ TerminalPollApplied(last)
    /\ fetchesIssued = MaxFetches /\ pollsInFlight = {}

\* the final_output of the plan state that the last rendering showed
ShownOutput == FieldValue(planState[1].final_output)

\* the results view was rendered for a COMPLETE plan with a final_output
RenderedComplete ==
    /\ last.op = "render"
    /\ planState[1].state = "COMPLETE"
    /\ planState[1].final_output # Null

\* the value JSON.parse gives for a text, null when it throws
Parsed(text) == IF JSONParse(text).ok THEN JSONParse(text).value ELSE JsNull

\* C16: the normalizer resolves the candidate TravelData by first match: a
\* string is JSON-parsed; otherwise an object containing a `value` key gives
\* the JSON-parse of value when value is a string, else value itself;
\* otherwise the object itself is the candidate.  This holds for every
\* final_output, also when `value` is null, 0, false or the empty string.
C16_NormalizerFirstMatch ==
    (RenderedComplete /\ last.view.resultBlock) =>
        last.view.travelData =
            IF ShownOutput.type = "string" THEN Parsed(ShownOutput.s)
            ELSE IF HasKey(ShownOutput, "value")
            THEN IF Get(ShownOutput, "value").type = "string"
                 THEN Parsed(Get(ShownOutput, "value").s)
                 ELSE Get(ShownOutput, "value")
            ELSE ShownOutput

\* C17: when final_output is a string that is not valid JSON, there is no
\* TravelData (null, no cards) and the summary text equals the raw string;
\* likewise when final_output.value is a string that is not valid JSON (and
\* no summary field takes precedence) the summary text equals that string.
C17_RawStringIsSummary ==
    RenderedComplete =>
        /\ (ShownOutput.type = "string" /\ ~JSONParse(ShownOutput.s).ok) =>
              /\ last.view.travelData = JsNull
              /\ last.view.cards = {}
              /\ last.view.summary # Null
              /\ last.view.summary[1].text = ShownOutput
        /\ (/\ HasKey(ShownOutput, "value")
            /\ ~HasKey(ShownOutput, "summary")
            /\ Get(ShownOutput, "value").type = "string"
            /\ ~JSONParse(Get(ShownOutput, "value").s).ok) =>
              /\ last.view.summary # Null
              /\ last.view.summary[1].text = Get(ShownOutput, "value")

\* C18: an explicit `summary` field has precedence: whenever final_output has
\* a summary field the summary text is exactly that field's value, whatever
\* the value and the flight and accommodation sections are; the text is
\* synthesized or generic only when there is no summary field.
C18_SummaryFieldWins ==
    (RenderedComplete /\ last.view.resultBlock) =>
        /\ last.view.summary # Null
        /\ HasKey(ShownOutput, "summary") =>
              /\ last.view.summary[1].kind = "explicit"
              /\ last.view.summary[1].text = Get(ShownOutput, "summary")
        /\ last.view.summary[1].kind \in {"synthesized", "generic"} =>
              ~HasKey(ShownOutput, "summary")

\* the price of a section of a TravelData, 0 when the section or its price
\* is missing
PriceOf(td, section) ==
    IF HasKey(td, section) /\ HasKey(Get(td, section), "price")
    THEN Get(Get(td, section), "price").n
    ELSE 0

SumOfPrices(td) ==
    PriceOf(td, "departureFlight") + PriceOf(td, "returnFlight")
        + PriceOf(td, "accommodation")

\* C19: the displayed total equals departureFlight.price + returnFlight.price
\* + accommodation.price, a missing section or price counting 0, and the
\* card total and the synthesized summary total are the same number for the
\* same TravelData.
C19_TotalIsSumOfPrices ==
    last.op = "render" =>
        /\ last.view.totalCard # Null =>
              last.view.totalCard[1] = SumOfPrices(last.view.travelData)
        /\ (last.view.summary # Null /\ last.view.summary[1].total # Null) =>
              /\ last.view.summary[1].total[1] =
                     SumOfPrices(last.view.summary[1].travelData)
              /\ last.view.summary[1].travelData = last.view.travelData =>
                     last.view.totalCard \in {Null, last.view.summary[1].total}

\* card and summary show the same total for a TravelData whose return flight
\* has no price
C19_Witness ==
    /\ last.op = "render"
    /\ last.view.cards = SectionNames
    /\ ~HasKey(Get(last.view.travelData, "returnFlight"), "price")
    /\ last.view.totalCard = <<1 + MaxPrice>>
    /\ last.view.summary[1].total = <<1 + MaxPrice>>

\* C20: when the results view shows a FAILED plan state, the failure message
\* is exactly planState.error when an error text is supplied and the generic
\* fallback otherwise, and no COMPLETE result block is shown.
C20_FailureMessage ==
    (last.op = "render" /\ currentStep = 4 /\ planState[1].state = "FAILED") =>
        /\ last.view.failure # Null
        /\ IF planState[1].error # Null /\ planState[1].error[1] # ""
           THEN last.view.failure = planState[1].error
           ELSE last.view.failure[1] \in
                    {"An error occurred while planning your trip.",
                     "Something went wrong while we were cooking your trip U+1F614"}
        /\ ~last.view.resultBlock
        /\ last.view.cards = {} /\ last.view.totalCard = Null
        /\ last.view.summary = Null /\ last.view.planDetails = Null

\* a FAILED plan state that carries an error text and a final_output
C20_Witness ==
    /\ last.op = "render" /\ planState[1].state = "FAILED"
    /\ planState[1].final_output # Null
    /\ last.view.failure = <<"No flights found">>

\* C21: formData is read once at submission and is immutable from the moment
\* submit is invoked until the next reset: no action changes a field of it
\* (here: the step that follows the click on Start Planning, and every step
\* taken while the processing or the results step is shown).
C21_FormDataFrozenAfterSubmit ==
    [][ ((last.op = "submit" \/ currentStep \in {3, 4})
         /\ last'.op \notin {"reset", "unmount"}) => formData' = formData
      ]_vars

\* a later-issued status fetch than fetch number seq has been answered
LaterAnswered(seq) ==
    \E n \in (seq + 1)..fetchesIssued : \A q \in pollsInFlight : q.seq # n

\* C22: poll responses are applied in the order their callbacks fire, with no
\* sequence number or staleness guard: the response to an earlier-issued
\* fetch that arrives after the response to a later-issued one is stored all
\* the same, so planState can go from COMPLETE back to IN_PROGRESS.
C22_StaleResponseApplied ==
    [][ (/\ last'.op = "pollResponse" /\ Is2xx(last'.status) /\ mounted'
         /\ LaterAnswered(last'.seq)) =>
            (last'.body # Null /\ planState' = last'.body)
      ]_vars

\* the answer IN_PROGRESS to the first fetch has replaced the terminal answer
\* to a later fetch, which had brought the wizard to the results step
C22_Witness ==
    /\ last.op = "pollResponse" /\ last.accepted /\ last.seq = 1
    /\ LaterAnswered(1)
    /\ currentStep = 4 /\ planState # Null
    /\ planState[1].state = "IN_PROGRESS"

\* C23: at most one repeating poll timer is active at any time of the page's
\* life, after any sequence of submissions (a second one issued before the
\* first one's response included), poll responses and resets; a timer that is
\* replaced by a newer one is cancelled.
C23_AtMostOneTimer ==
    mounted =>
        /\ Cardinality(timers) <= 1
        /\ \A t \in timers : t.handle = pollingInterval /\ t.handle = timersCreated

\* the timer of a second submission, issued before the first one was
\* answered, has replaced the timer of the first
C23_Witness ==
    /\ mounted /\ timersCreated = 2 /\ Cardinality(timers) = 1
    /\ Cardinality(pollsInFlight) = 2 /\ currentStep = 3

\* C24: every body sent to POST /plan/start has non-empty origin,
\* destination, departure_date and return_date, a cabin_class among economy,
\* premiumeconomy, business, first and passengers in 1..8.
C24_SubmittedBodyValid ==
    last.op = "submit" =>
        /\ last.body # Null
        /\ last.body[1].origin # "" /\ last.body[1].destination # ""
        /\ last.body[1].departure_date # "" /\ last.body[1].return_date # ""
        /\ last.body[1].cabin_class \in
               {"economy", "premiumeconomy", "business", "first"}
        /\ last.body[1].passengers \in 1..8

\* a second body was sent, with the last cabin class and 8 passengers
C24_Witness ==
    /\ last.op = "submit" /\ submitsIssued = 2
    /\ last.body[1].cabin_class = "first" /\ last.body[1].passengers = 8

\* C25: whenever currentStep = 4, planState is non-null and its state is
\* COMPLETE or FAILED (so the results view shows the result block or the
\* failure block), also after late poll responses.
C25_ResultsStepHasTerminalState ==
    (mounted /\ currentStep = 4) =>
        (planState # Null /\ planState[1].state \in TerminalStates)

\* C26: after reset and until the next submission planState stays null and
\* currentStep changes only by manual next/back: no poll or submission
\* response that was in flight at the reset sets planState or moves
\* currentStep (here: the response that arrives right after the reset).
C26_NoLateResponseAfterReset ==
    [][ (last.op = "reset" /\ last'.op \in {"pollResponse", "submitResponse"}) =>
            (planState' = Null /\ currentStep' = currentStep)
      ]_vars

\* C27: at most one submission is outstanding per session: submit cannot be
\* invoked again while the response of a previous submission is pending.
C27_OneSubmissionOutstanding == Cardinality(submitsInFlight) <= 1

\* the buttons and inputs of the wizard
UserAction ==
    \/ EditOrigin \/ EditDestination \/ EditDepartureDate \/ EditReturnDate
    \/ EditCabinClass \/ EditPassengers
    \/ ClickContinue \/ ClickBack \/ ClickStartPlanning \/ ClickReset

\* C30: at step 3 no user action is available and the only transition that
\* changes currentStep away from 3 is a stored poll response with state
\* COMPLETE or FAILED; while none arrives (every fetch answered 404, say) the
\* wizard stays at step 3 with the timer still firing.
C30_ProcessingLeftOnlyByTerminalPoll ==
    /\ []((mounted /\ currentStep = 3) =>
            /\ ~ENABLED UserAction
            /\ \E t \in timers : t.handle = pollingInterval
            /\ fetchesIssued < MaxFetches => ENABLED TimerTick)
    /\ [][ (currentStep = 3 /\ currentStep' # 3 /\ mounted') =>
               (TerminalPollApplied(last') /\ currentStep' = 4)
         ]_vars

\* every fetch so far was answered, the last one with 404, and the wizard
\* still shows the processing step with its timer running
C30_Witness ==
    /\ currentStep = 3 /\ mounted /\ timers # {}
    /\ last.op = "pollResponse" /\ last.status = 404
    /\ fetchesIssued = MaxFetches /\ pollsInFlight = {}

\* C28: for every final_output shape (JSON text, {value: ...} wrapper, direct
\* object) without a summary field, whenever the cards resolve a non-null
\* TravelData the summary panel shows the synthesized "Travel Plan Overview"
\* text over that same TravelData, and not the generic JSON-to-markdown text.
C28_SummarySynthesizedFromCardsData ==
    (/\ RenderedComplete /\ last.view.resultBlock
     /\ ~HasKey(ShownOutput, "summary")
     /\ Truthy(last.view.travelData)) =>
        /\ last.view.summary[1].kind = "synthesized"
        /\ last.view.summary[1].travelData = last.view.travelData
        /\ last.view.summary[1].text = Str(SynthesizedSummary(last.view.travelData))

\* C29: the two versions of the page are equivalent on the results view: for
\* every final_output they resolve the same TravelData and the same summary
\* text, objects whose value or summary is present but falsy included.
C29_VariantsEquivalent ==
    (RenderedComplete /\ last.view.resultBlock) =>
        \A v \in Variants :
            /\ ResultsView(v, planState).travelData = last.view.travelData
            /\ ResultsView(v, planState).summary[1].text = last.view.summary[1].text

====
